---- MODULE Spec2Model ----
(***************************************************************************)
(* Model of backend/api/audio_service.py: the AudioService controller.     *)
(*                                                                         *)
(* Threads are the callers of the public methods and the worker threads    *)
(* that _run_command starts (one per call, running the nested function     *)
(* target).  A step is one atomic piece of a method: the entry of a        *)
(* public method, the acquisition of self._lock, the body of a `with       *)
(* self._lock` block together with the release that ends it, the start of  *)
(* a thread together with the return to the caller.  External processes    *)
(* are modelled by their life cycle (not started, running, exited) and by  *)
(* whether Popen.terminate() has been called on them while they run.       *)
(***************************************************************************)
EXTENDS Naturals, FiniteSets, Sequences, TLC

\* Number of concurrent callers of the service.
NumCallers == 2
\* Total number of public-method calls made in one behaviour.
MaxCalls == 3
\* Longest text handed to play_text and play_announcement, in characters.
MaxTextLen == 3
\* Longest path handed to play_intro, play_file and play_intro_async.
MaxPathLen == 4
\* Longest media duration, in periods of the position loop.
MaxDuration == 3

Callers == 1..NumCallers
\* One worker thread (and at most one process) per _run_command call.
Workers == 1..MaxCalls

\* The value None of current_process.
NULL == 0

\* Holders of self._lock.
Free == <<"free", 0>>
CallerThread(c) == <<"caller", c>>
TargetThread(w) == <<"target", w>>

\* The public methods.
Ops == {"play_text", "play_intro", "play_file", "play_announcement",
        "play_intro_async", "stop"}

\* The invocations the methods build, by kind.
SpeakCmd == "speak"
FallbackToneCmd == "fallback_tone"
IntroMediaCmd == "intro_media"
SoundPlayerCmd == "sound_player"
FileMediaCmd == "file_media"
AnnouncementCmd == "announcement"
IntroAsyncCmd == "intro_async_media"
NoCmd == "none"

VARIABLES
    current_process,  \* self.current_process: NULL or the worker whose Popen handle it holds
    lock,             \* holder of self._lock
    pc,               \* pc[c]: position of caller c
    op,               \* op[c]: the public method caller c is in
    calls,            \* number of public-method calls made so far
    nthreads,         \* number of threads started by _run_command so far
    tpc,              \* tpc[w]: position of worker thread w in target()
    cmd,              \* cmd[w]: the shape of the command _run_command was given
    proc,             \* proc[w]: life cycle of the process worker w spawned
    term,             \* term[w]: outcome of terminate() on worker w's process while it runs
    runproc,          \* runproc[c]: life cycle of the process of subprocess.run in play_intro
    slotAtCall,       \* slotAtCall[c]: current_process when caller c entered its method
    atCall,           \* atCall[w]: slotAtCall of the call that started worker w, kept until w spawns
    lastAnn,          \* lastAnn[c]: worker of the announcement the last call of c started, else NULL
    cancelled,        \* running announcements whose caller completed a stop() right after starting them
    request,          \* the arguments of one call of a playback method, and what the filesystem says
    launched,         \* what that call has done so far: its stop(), the invocation built, how it was dispatched
    ps                \* the state of the interpreter running the script of one invocation

vars == <<current_process, lock, pc, op, calls, nthreads, tpc, cmd, proc,
          term, runproc, slotAtCall, atCall, lastAnn, cancelled,
          request, launched, ps>>

callerVars == <<pc, op, calls, slotAtCall, lastAnn>>
workerVars == <<nthreads, tpc, cmd, atCall>>
\* The variables of the single-call view (what one call builds, what one
\* script does); the threads of the service leave them alone.
auxVars == <<request, launched, ps>>
serviceVars == <<current_process, lock, callerVars, workerVars, proc, term,
                 runproc, cancelled>>

\* No call is being looked at, nothing has been built, no script is running.
NoRequest == [method |-> "none", path |-> <<>>, text |-> <<>>, exists |-> FALSE]
NoLaunch == [stopped |-> FALSE, by |-> "none", flag |-> "none", script |-> <<>>]
NoScript == [script |-> <<>>, idx |-> 0, attempts |-> 0, hasTimeSpan |-> FALSE,
             duration |-> 0, position |-> 0, polled |-> 0, waited |-> 0,
             inLoop |-> FALSE]

----------------------------------------------------------------------------
\* __init__ (lines 8-10) and the state before any call.
ServiceInit ==
    /\ current_process = NULL
    /\ lock = Free
    /\ pc = [c \in Callers |-> "idle"]
    /\ op = [c \in Callers |-> "none"]
    /\ calls = 0
    /\ nthreads = 0
    /\ tpc = [w \in Workers |-> "unstarted"]
    /\ cmd = [w \in Workers |-> "none"]
    /\ proc = [w \in Workers |-> "none"]
    /\ term = [w \in Workers |-> "no"]
    /\ runproc = [c \in Callers |-> "none"]
    /\ slotAtCall = [c \in Callers |-> NULL]
    /\ atCall = [w \in Workers |-> NULL]
    /\ lastAnn = [c \in Callers |-> NULL]
    /\ cancelled = {}

\* The service with no single call and no script singled out.
Init ==
    /\ ServiceInit
    /\ request = NoRequest
    /\ launched = NoLaunch
    /\ ps = NoScript

----------------------------------------------------------------------------
\* The invocation each playback method builds.

\* play_text: the SpeechSynthesizer.Speak command.
PlayTextCommand == SpeakCmd

\* play_intro: the beep script when the file is missing, else the MediaPlayer script.
PlayIntroCommand(exists) == IF ~exists THEN FallbackToneCmd ELSE IntroMediaCmd

\* play_file: SoundPlayer.PlaySync for a .wav path, else the MediaPlayer loop.
PlayFileCommand(wav) == IF wav THEN SoundPlayerCmd ELSE FileMediaCmd

\* play_announcement: one script, intro then Speak.
PlayAnnouncementCommand == AnnouncementCmd

\* play_intro_async: the MediaPlayer script.
PlayIntroAsyncCommand == IntroAsyncCmd

\* The command a method builds; f is what the method asks about its path
\* (os.path.exists in play_intro, endswith('.wav') in play_file).
CommandOf(o, f) ==
    CASE o = "play_text" -> PlayTextCommand
      [] o = "play_intro" -> PlayIntroCommand(f)
      [] o = "play_file" -> PlayFileCommand(f)
      [] o = "play_announcement" -> PlayAnnouncementCommand
      [] o = "play_intro_async" -> PlayIntroAsyncCommand
      [] OTHER -> NoCmd

\* What the process of a command goes through: the announcement script plays
\* its intro and then speaks, every other script is one playback.
Shape(command) == IF command = AnnouncementCmd THEN "intro_then_speech" ELSE "single"

\* play_intro with the file present runs its command with subprocess.run;
\* every other playback path goes through _run_command.
UsesRunCommand(o, f) == o # "stop" /\ ~(o = "play_intro" /\ f)

\* The answers a method can get about its path.
PathAnswers(o) == IF o \in {"play_intro", "play_file"} THEN BOOLEAN ELSE {FALSE}

----------------------------------------------------------------------------
\* Entry of a public method: the caller is about to run self.stop() (or is in
\* stop() itself) and will block on self._lock.
Call(c, o) ==
    /\ pc[c] = "idle"
    /\ calls < MaxCalls
    /\ calls' = calls + 1
    /\ pc' = [pc EXCEPT ![c] = "stop_acquire"]
    /\ op' = [op EXCEPT ![c] = o]
    /\ slotAtCall' = [slotAtCall EXCEPT ![c] = current_process]
    /\ lastAnn' = [lastAnn EXCEPT ![c] = IF o = "stop" THEN @ ELSE NULL]
    /\ UNCHANGED <<current_process, lock, workerVars, proc, term, runproc,
                   cancelled>>
    /\ UNCHANGED auxVars

play_text(c) == Call(c, "play_text")

play_intro(c) == Call(c, "play_intro")

play_file(c) == Call(c, "play_file")

play_announcement(c) == Call(c, "play_announcement")

play_intro_async(c) == Call(c, "play_intro_async")

stop(c) == Call(c, "stop")

\* The caller is back in its idle state.
Returned(c) ==
    /\ pc' = [pc EXCEPT ![c] = "idle"]
    /\ op' = [op EXCEPT ![c] = "none"]
    /\ slotAtCall' = [slotAtCall EXCEPT ![c] = NULL]

\* stop(): `with self._lock` is entered.
StopAcquire(c) ==
    /\ pc[c] = "stop_acquire"
    /\ lock = Free
    /\ lock' = CallerThread(c)
    /\ pc' = [pc EXCEPT ![c] = "stop_body"]
    /\ UNCHANGED <<current_process, op, calls, slotAtCall, lastAnn,
                   workerVars, proc, term, runproc, cancelled>>
    /\ UNCHANGED auxVars

\* Outcome of self.current_process.terminate(): the request is delivered, or
\* terminate raises and the bare except swallows it.
TerminateOutcome(raises) == IF raises THEN "failed" ELSE "sent"

\* Variant of StopTerminate: stop() terminates every process the service has
\* spawned that is still running, whatever the slot holds.
StopTerminateAll(raises) ==
    [w \in Workers |->
        IF proc[w] \in {"running", "speaking"} THEN TerminateOutcome(raises)
        ELSE term[w]]

\* term after the body of stop(): terminate is called on the process in the
\* slot, if there is one.  On a process that has already exited the call
\* reaches nothing.
StopTerminate(raises) ==
    IF current_process # NULL /\ proc[current_process] # "exited"
    THEN [term EXCEPT ![current_process] = TerminateOutcome(raises)]
    ELSE term

\* Variant of StopSlot: the assignment of None sits inside the try block, after
\* terminate(), so a terminate that raises skips it.
StopSlotInsideTry(raises) == IF raises THEN current_process ELSE NULL

\* current_process after the body of stop(): the assignment of None follows
\* the try/except, so it runs whether or not terminate raised.
StopSlot(raises) == NULL

\* The announcement a stop() call is meant to cancel: the one its caller
\* started with its previous call, when its speech step has not begun and the
\* termination request (if one was made) did not fail.
CancelledBy(c, raises) ==
    IF /\ op[c] = "stop"
       /\ lastAnn[c] # NULL
       /\ proc[lastAnn[c]] \in {"none", "running"}
       /\ ~raises
    THEN {lastAnn[c]}
    ELSE {}

\* Variant of StopRunProcs: stop() also ends the processes play_intro started
\* with subprocess.run.
StopRunProcsKilled ==
    [c \in Callers |-> IF runproc[c] = "running" THEN "exited" ELSE runproc[c]]

\* runproc after the body of stop(): stop() acts on current_process only, and
\* the process of subprocess.run is never stored there.
StopRunProcs == runproc

\* stop(): the body of the `with` block and the release of the lock.  A
\* playback method goes on to its dispatch, stop() itself returns.
StopBody(c) ==
    /\ pc[c] = "stop_body"
    /\ lock = CallerThread(c)
    /\ \E raises \in (IF current_process # NULL THEN BOOLEAN ELSE {FALSE}) :
         /\ term' = StopTerminate(raises)
         /\ current_process' = StopSlot(raises)
         /\ cancelled' = cancelled \cup CancelledBy(c, raises)
    /\ lock' = Free
    /\ IF op[c] = "stop"
       THEN /\ Returned(c)
            /\ lastAnn' = [lastAnn EXCEPT ![c] = NULL]
       ELSE /\ pc' = [pc EXCEPT ![c] = "dispatch"]
            /\ UNCHANGED <<op, slotAtCall, lastAnn>>
    /\ runproc' = StopRunProcs
    /\ UNCHANGED <<calls, workerVars, proc>>
    /\ UNCHANGED auxVars

\* A playback method builds its command and calls _run_command:
\* thread = threading.Thread(target=target); thread.start().  The thread is
\* not joined: _run_command and the method return to the caller.
RunCommand(c) ==
    /\ pc[c] = "dispatch"
    /\ \E f \in PathAnswers(op[c]) :
         /\ UsesRunCommand(op[c], f)
         /\ LET w == nthreads + 1 IN
              /\ nthreads' = w
              /\ tpc' = [tpc EXCEPT ![w] = "ready"]
              /\ cmd' = [cmd EXCEPT ![w] = Shape(CommandOf(op[c], f))]
              /\ atCall' = [atCall EXCEPT ![w] = slotAtCall[c]]
              /\ lastAnn' = [lastAnn EXCEPT ![c] =
                               IF op[c] = "play_announcement" THEN w ELSE NULL]
    /\ Returned(c)
    /\ UNCHANGED <<current_process, lock, calls, proc, term, runproc, cancelled>>
    /\ UNCHANGED auxVars

\* play_intro, file present: subprocess.run(command, check=True) spawns the
\* process (the caller then waits for it), or fails to and the exception is
\* caught, which ends the method.
PlayIntroRun(c) ==
    /\ pc[c] = "dispatch"
    /\ \E f \in PathAnswers(op[c]) : ~UsesRunCommand(op[c], f)
    /\ \E spawned \in BOOLEAN :
         IF spawned
         THEN /\ runproc' = [runproc EXCEPT ![c] = "running"]
              /\ pc' = [pc EXCEPT ![c] = "run_wait"]
              /\ UNCHANGED <<op, slotAtCall>>
         ELSE /\ Returned(c)
              /\ UNCHANGED runproc
    /\ UNCHANGED <<current_process, lock, calls, lastAnn, workerVars, proc,
                   term, cancelled>>
    /\ UNCHANGED auxVars

\* The process of subprocess.run exits.
RunProcExit(c) ==
    /\ runproc[c] = "running"
    /\ runproc' = [runproc EXCEPT ![c] = "exited"]
    /\ UNCHANGED <<current_process, lock, callerVars, workerVars, proc, term,
                   cancelled>>
    /\ UNCHANGED auxVars

\* play_intro, file present: subprocess.run returns once its process has
\* exited (a non-zero exit raises, and the exception is caught).
PlayIntroReturn(c) ==
    /\ pc[c] = "run_wait"
    /\ runproc[c] = "exited"
    /\ runproc' = [runproc EXCEPT ![c] = "none"]
    /\ Returned(c)
    /\ UNCHANGED <<current_process, lock, calls, lastAnn, workerVars, proc,
                   term, cancelled>>
    /\ UNCHANGED auxVars

----------------------------------------------------------------------------
\* The worker thread: target() of _run_command.

\* target(): the first `with self._lock` is entered.
TargetAcquire(w) ==
    /\ tpc[w] = "ready"
    /\ lock = Free
    /\ lock' = TargetThread(w)
    /\ tpc' = [tpc EXCEPT ![w] = "spawn"]
    /\ UNCHANGED <<current_process, callerVars, nthreads, cmd, atCall, proc,
                   term, runproc, cancelled>>
    /\ UNCHANGED auxVars

\* current_process after a successful Popen: self.current_process = proc.
SpawnSlot(w) == w

\* Variant of LockAfterSpawn: proc.communicate() is called inside the `with`
\* block, so the worker keeps the lock while it waits.
LockHeldAcrossWait(w) == TargetThread(w)

\* Holder of the lock once the first `with` block of target() is left: the
\* block ends before proc.communicate(), so the lock is free during the wait.
LockAfterSpawn(w) == Free

\* Variant of SpawnFailureNext: the except block has no return, and the code
\* after the `with` block waits and cleans up without testing proc.
SpawnFailureFallsThrough(w) == "communicate"

\* Where target() goes when Popen raised: the except block prints and
\* returns, so neither communicate() nor the cleanup runs.
SpawnFailureNext(w) == "done"

\* Variant of SpawnFailureLock: the lock is taken with acquire() and released
\* only after a successful Popen, so the return in the except block keeps it.
SpawnFailureKeepsLock(w) == TargetThread(w)

\* Holder of the lock when Popen raised: the return leaves the `with` block,
\* which releases the lock.
SpawnFailureLock(w) == Free

\* target(): the body of the first `with` block and the release of the lock.
\* Popen succeeds and the handle is stored, or Popen raises, the exception is
\* printed and target() returns.
TargetSpawn(w) ==
    /\ tpc[w] = "spawn"
    /\ lock = TargetThread(w)
    /\ \E spawned \in BOOLEAN :
         IF spawned
         THEN /\ proc' = [proc EXCEPT ![w] = "running"]
              /\ current_process' = SpawnSlot(w)
              /\ lock' = LockAfterSpawn(w)
              /\ tpc' = [tpc EXCEPT ![w] = "communicate"]
         ELSE /\ lock' = SpawnFailureLock(w)
              /\ tpc' = [tpc EXCEPT ![w] = SpawnFailureNext(w)]
              /\ UNCHANGED <<proc, current_process>>
    /\ atCall' = [atCall EXCEPT ![w] = NULL]
    /\ UNCHANGED <<callerVars, nthreads, cmd, term, runproc, cancelled>>
    /\ UNCHANGED auxVars

\* The announcement script passes from its intro to $synth.Speak.  A process
\* that has received a termination request runs no further step.
ProcSpeak(w) ==
    /\ cmd[w] = "intro_then_speech"
    /\ proc[w] = "running"
    /\ term[w] # "sent"
    /\ proc' = [proc EXCEPT ![w] = "speaking"]
    /\ UNCHANGED <<current_process, lock, callerVars, workerVars, term,
                   runproc, cancelled>>
    /\ UNCHANGED auxVars

\* A spawned process exits: it finished, failed or was terminated.  What was
\* recorded about the running process (its script, a termination request
\* made to it, a pending cancellation) ends with it.
ProcExit(w) ==
    /\ proc[w] \in {"running", "speaking"}
    /\ proc' = [proc EXCEPT ![w] = "exited"]
    /\ term' = [term EXCEPT ![w] = "no"]
    /\ cmd' = [cmd EXCEPT ![w] = "none"]
    /\ cancelled' = cancelled \ {w}
    /\ UNCHANGED <<current_process, lock, callerVars, nthreads, tpc, atCall,
                   runproc>>
    /\ UNCHANGED auxVars

\* target(): proc.communicate() has returned (the process exited) and the
\* `with self._lock` of the finally block is entered.
TargetCleanupAcquire(w) ==
    /\ tpc[w] = "communicate"
    /\ proc[w] = "exited"
    /\ lock = Free
    /\ lock' = TargetThread(w)
    /\ tpc' = [tpc EXCEPT ![w] = "cleanup"]
    /\ UNCHANGED <<current_process, callerVars, nthreads, cmd, atCall, proc,
                   term, runproc, cancelled>>
    /\ UNCHANGED auxVars

\* Variant of CleanupSlot: the slot is cleared without the comparison.
CleanupSlotUnguarded(w) == NULL

\* Variant of CleanupSlot: the finally block does not clear the slot.
CleanupSlotKept(w) == current_process

\* current_process after the cleanup: cleared only if it is still the
\* handle of this worker's process.
CleanupSlot(w) == IF current_process = w THEN NULL ELSE current_process

\* target(): the body of the `with` block of the finally clause and the
\* release of the lock; target() ends.
TargetCleanup(w) ==
    /\ tpc[w] = "cleanup"
    /\ lock = TargetThread(w)
    /\ current_process' = CleanupSlot(w)
    /\ lock' = Free
    /\ tpc' = [tpc EXCEPT ![w] = "done"]
    /\ UNCHANGED <<callerVars, nthreads, cmd, atCall, proc, term, runproc,
                   cancelled>>
    /\ UNCHANGED auxVars

----------------------------------------------------------------------------
CallerStep(c) ==
    \/ StopAcquire(c)
    \/ StopBody(c)
    \/ RunCommand(c)
    \/ PlayIntroRun(c)
    \/ PlayIntroReturn(c)

TargetStep(w) ==
    \/ TargetAcquire(w)
    \/ TargetSpawn(w)
    \/ TargetCleanupAcquire(w)
    \/ TargetCleanup(w)

Next ==
    \/ \E c \in Callers : play_text(c)
    \/ \E c \in Callers : play_intro(c)
    \/ \E c \in Callers : play_file(c)
    \/ \E c \in Callers : play_announcement(c)
    \/ \E c \in Callers : play_intro_async(c)
    \/ \E c \in Callers : stop(c)
    \/ \E c \in Callers : CallerStep(c)
    \/ \E c \in Callers : RunProcExit(c)
    \/ \E w \in Workers : TargetStep(w)
    \/ \E w \in Workers : ProcSpeak(w)
    \/ \E w \in Workers : ProcExit(w)

Spec == Init /\ [][Next]_vars

\* The scheduler runs every thread that can take a step: callers inside a
\* method and worker threads.  New calls and the exit of a process are not
\* forced.
FairSpec ==
    /\ Spec
    /\ \A c \in Callers : WF_vars(CallerStep(c))
    /\ \A w \in Workers : WF_vars(TargetStep(w))

----------------------------------------------------------------------------
\* One call of a playback method, from its arguments to its dispatch: the
\* strings it builds and the invocation it hands over.  A string is a
\* sequence of characters.

\* The characters of the texts: a letter and the quote PowerShell ends a
\* string with.
TextChars == {"a", "'"}
\* The characters of the paths: those of the extension .wav, one of them in
\* upper case as well, and the quote.
PathChars == {".", "w", "W", "a", "v", "'"}

StringsOver(chars, n) == UNION {[1..k -> chars] : k \in 0..n}

Texts == StringsOver(TextChars, MaxTextLen)
Paths == StringsOver(PathChars, MaxPathLen)

\* str.lower(), on the characters of PathChars.
LowerChar(ch) == IF ch = "W" THEN "w" ELSE ch

Lower(str) == [i \in 1..Len(str) |-> LowerChar(str[i])]

\* str.endswith(suffix).
EndsWith(str, suffix) ==
    /\ Len(str) >= Len(suffix)
    /\ SubSeq(str, Len(str) - Len(suffix) + 1, Len(str)) = suffix

WavSuffix == <<".", "w", "a", "v">>

\* Variant of IsWav: the extension is compared as written.
IsWavCaseSensitive(path) == EndsWith(path, WavSuffix)

\* file_path.lower().endswith('.wav')
IsWav(path) == EndsWith(Lower(path), WavSuffix)

\* Variant of Escape: the string is embedded as it is.
EscapeNothing(str) == str

\* str.replace("'", "''"): every quote is doubled.
RECURSIVE Escape(_)
Escape(str) ==
    IF str = <<>> THEN <<>>
    ELSE (IF Head(str) = "'" THEN <<"'", "'">> ELSE <<Head(str)>>)
            \o Escape(Tail(str))

\* '{safe}' in the f-strings: the string between two quotes.
Quote(str) == <<"'">> \o str \o <<"'">>

\* One statement of a script: what it does, its numbers, its string literal.
Stmt(o, a, b, lit) == [op |-> o, a |-> a, b |-> b, lit |-> lit]

\* The numbers of the MediaPlayer scripts: $attempts, the sleep of the
\* metadata poll, the sleep of the position loop (milliseconds), and the
\* fixed wait when no duration is known (Start-Sleep -Seconds 4).
PollAttempts == 20
PollIntervalMs == 100
PositionPollMs == 100
FallbackWaitMs == 4000

\* [console]::beep(800, 400); Start-Sleep -Milliseconds 100; [console]::beep(600, 600)
FallbackScript ==
    << Stmt("beep", 800, 400, <<>>),
       Stmt("sleep_ms", 100, 0, <<>>),
       Stmt("beep", 600, 600, <<>>) >>

\* Open, poll for the duration, Play, wait for the end (or the fixed wait),
\* Close: the script the intro methods and the announcement share.
MediaScript(lit) ==
    << Stmt("open", 0, 0, lit),
       Stmt("set_attempts", PollAttempts, 0, <<>>),
       Stmt("poll_duration", PollIntervalMs, 0, <<>>),
       Stmt("play", 0, 0, <<>>),
       Stmt("wait_end", PositionPollMs, FallbackWaitMs, <<>>),
       Stmt("close", 0, 0, <<>>) >>

\* (New-Object System.Speech.Synthesis.SpeechSynthesizer).Speak('...')
SpeakScript(lit) == << Stmt("speak", 0, 0, lit) >>

\* (New-Object Media.SoundPlayer '...').PlaySync()
SoundPlayerScript(lit) == << Stmt("play_sync", 0, 0, lit) >>

\* play_file, not a .wav: Open, Play, loop on the position with no bound.
FileMediaScript(lit) ==
    << Stmt("open", 0, 0, lit),
       Stmt("play", 0, 0, <<>>),
       Stmt("wait_position", 500, 0, <<>>),
       Stmt("close", 0, 0, <<>>) >>

PlayTextScript(text) == SpeakScript(Quote(Escape(text)))

\* Variant of PlayIntroScript: os.path.exists is not consulted.
PlayIntroScriptNoCheck(path, exists) == MediaScript(Quote(Escape(path)))

PlayIntroScript(path, exists) ==
    IF ~exists THEN FallbackScript ELSE MediaScript(Quote(Escape(path)))

PlayFileScript(path) ==
    IF IsWav(path) THEN SoundPlayerScript(Quote(Escape(path)))
    ELSE FileMediaScript(Quote(Escape(path)))

PlayAnnouncementScript(path, text) ==
    MediaScript(Quote(Escape(path))) \o SpeakScript(Quote(Escape(text)))

PlayIntroAsyncScript(path) == MediaScript(Quote(Escape(path)))

\* The script a call builds.
ScriptOf(r) ==
    CASE r.method = "play_text" -> PlayTextScript(r.text)
      [] r.method = "play_intro" -> PlayIntroScript(r.path, r.exists)
      [] r.method = "play_file" -> PlayFileScript(r.path)
      [] r.method = "play_announcement" -> PlayAnnouncementScript(r.path, r.text)
      [] r.method = "play_intro_async" -> PlayIntroAsyncScript(r.path)
      [] OTHER -> <<>>

\* The PowerShell option the script is passed with.
FlagOf(method) == IF method = "play_text" THEN "-Command" ELSE "-c"

\* How the invocation is run.
DispatchOf(r) ==
    IF UsesRunCommand(r.method, r.exists) THEN "_run_command" ELSE "subprocess.run"

Request(m, p, t, e) == [method |-> m, path |-> p, text |-> t, exists |-> e]

\* The calls looked at.  The path of an announcement is only quoted, so it
\* ranges over the texts.
Requests ==
    {Request("play_text", <<>>, t, FALSE) : t \in Texts}
        \cup {Request("play_intro", p, <<>>, e) : p \in Paths, e \in BOOLEAN}
        \cup {Request("play_file", p, <<>>, e) : p \in Paths, e \in {FALSE}}
        \cup {Request("play_announcement", p, t, FALSE) : p \in Texts, t \in Texts}
        \cup {Request("play_intro_async", p, <<>>, e) : p \in Paths, e \in BOOLEAN}

LaunchInit ==
    /\ ServiceInit
    /\ request \in Requests
    /\ launched = NoLaunch
    /\ ps = NoScript

\* The first statement of every playback method: self.stop().
LaunchStop ==
    /\ request.method # "none"
    /\ ~launched.stopped
    /\ launched' = [launched EXCEPT !.stopped = TRUE]
    /\ UNCHANGED <<serviceVars, request, ps>>

\* The rest of the method: the invocation is built and handed to
\* _run_command or to subprocess.run.
LaunchDispatch ==
    /\ launched.stopped
    /\ launched.by = "none"
    /\ launched' = [launched EXCEPT !.by = DispatchOf(request),
                                    !.flag = FlagOf(request.method),
                                    !.script = ScriptOf(request)]
    /\ UNCHANGED <<serviceVars, request, ps>>

LaunchNext == LaunchStop \/ LaunchDispatch

LaunchSpec == LaunchInit /\ [][LaunchNext]_vars

----------------------------------------------------------------------------
\* One run of a MediaPlayer script with a metadata poll, statement by
\* statement.  Times are in milliseconds: polled is the time slept in the
\* poll loop, waited the time slept after Play.

\* The scripts with a poll: those of play_intro (file present),
\* play_announcement and play_intro_async.
PolledScripts ==
    {ScriptOf(r) : r \in {Request("play_intro", <<>>, <<>>, TRUE),
                          Request("play_announcement", <<>>, <<>>, FALSE),
                          Request("play_intro_async", <<>>, <<>>, FALSE)}}

ScriptInit ==
    /\ ServiceInit
    /\ request = NoRequest
    /\ launched = NoLaunch
    /\ ps \in {[NoScript EXCEPT !.script = sc, !.idx = 1,
                                !.duration = d * PositionPollMs] :
                 sc \in PolledScripts, d \in 1..MaxDuration}

\* The script has statements left; Cur is the one it is at.
ScriptRunning == ps.idx \in 1..Len(ps.script)
Cur == ps.script[ps.idx]

\* The statement is done.
Advance(state) == [state EXCEPT !.idx = @ + 1]

\* The player learns the duration of the media: NaturalDuration.HasTimeSpan
\* becomes true, at any time after Open, or never.
MetadataLoads ==
    /\ ScriptRunning
    /\ ps.idx > 1
    /\ ~ps.hasTimeSpan
    /\ ps' = [ps EXCEPT !.hasTimeSpan = TRUE]
    /\ UNCHANGED <<serviceVars, request, launched>>

\* $p.Open('...')
ScriptOpen ==
    /\ ScriptRunning
    /\ Cur.op = "open"
    /\ ps' = Advance(ps)
    /\ UNCHANGED <<serviceVars, request, launched>>

\* $attempts = 20
ScriptSetAttempts ==
    /\ ScriptRunning
    /\ Cur.op = "set_attempts"
    /\ ps' = Advance([ps EXCEPT !.attempts = Cur.a])
    /\ UNCHANGED <<serviceVars, request, launched>>

\* while (-not $p.NaturalDuration.HasTimeSpan -and $attempts -gt 0)
\*     { Start-Sleep -Milliseconds 100; $attempts-- }
ScriptPoll ==
    /\ ScriptRunning
    /\ Cur.op = "poll_duration"
    /\ ps' = IF ~ps.hasTimeSpan /\ ps.attempts > 0
             THEN [ps EXCEPT !.polled = @ + Cur.a, !.attempts = @ - 1]
             ELSE Advance(ps)
    /\ UNCHANGED <<serviceVars, request, launched>>

\* $p.Play()
ScriptPlay ==
    /\ ScriptRunning
    /\ Cur.op = "play"
    /\ ps' = Advance(ps)
    /\ UNCHANGED <<serviceVars, request, launched>>

\* Variant of WaitBranch: the script loops on the position whether or not
\* the duration is known.
WaitBranchAlwaysLoop(hasTimeSpan) == "loop"

\* if ($p.NaturalDuration.HasTimeSpan) { loop on the position } else { fixed wait }
WaitBranch(hasTimeSpan) == IF hasTimeSpan THEN "loop" ELSE "fixed"

\* The wait for the end of the media: the `if` chooses between the loop on
\* the position and the fixed wait; an iteration of the loop sleeps while
\* the media plays on; the loop ends when the position has reached the
\* duration.
ScriptWaitEnd ==
    /\ ScriptRunning
    /\ Cur.op = "wait_end"
    /\ ps' = IF ~ps.inLoop
             THEN IF WaitBranch(ps.hasTimeSpan) = "loop"
                  THEN [ps EXCEPT !.inLoop = TRUE]
                  ELSE Advance([ps EXCEPT !.waited = @ + Cur.b])
             ELSE IF ps.position < ps.duration
                  THEN [ps EXCEPT !.waited = @ + Cur.a, !.position = @ + Cur.a]
                  ELSE Advance([ps EXCEPT !.inLoop = FALSE])
    /\ UNCHANGED <<serviceVars, request, launched>>

\* $p.Close()
ScriptClose ==
    /\ ScriptRunning
    /\ Cur.op = "close"
    /\ ps' = Advance(ps)
    /\ UNCHANGED <<serviceVars, request, launched>>

\* $synth.Speak('...')
ScriptSpeak ==
    /\ ScriptRunning
    /\ Cur.op = "speak"
    /\ ps' = Advance(ps)
    /\ UNCHANGED <<serviceVars, request, launched>>

\* The next step of the script itself.
ScriptStep ==
    \/ ScriptOpen
    \/ ScriptSetAttempts
    \/ ScriptPoll
    \/ ScriptPlay
    \/ ScriptWaitEnd
    \/ ScriptClose
    \/ ScriptSpeak

ScriptNext == ScriptStep \/ MetadataLoads

ScriptSpec == ScriptInit /\ [][ScriptNext]_vars

----------------------------------------------------------------------------
\* Properties.

\* A process is running: spawned and not yet exited.
Running(w) == proc[w] \in {"running", "speaking"}

\* The processes spawned through _run_command that have neither exited nor
\* had terminate() called on them.
LiveProcs == {w \in Workers : Running(w) /\ term[w] = "no"}

\* Worker w's operation has returned to its caller: _run_command returns as
\* soon as it has started the thread.
OpReturned(w) == tpc[w] # "unstarted"

\* The step of target() that leaves its first critical section with a
\* process spawned.
SpawnStep(w) == proc[w] = "none" /\ proc'[w] = "running"

\* C1: at most one playback session is active at a time: no two spawned
\* processes exist that have both neither exited nor been sent a termination
\* request.  Stated for the processes spawned through _run_command.
C1_AtMostOneLive == Cardinality(LiveProcs) <= 1

\* C2: when a playback operation is called while current_process holds a
\* process, that process has been sent a termination request (or has exited)
\* before the operation's own process is spawned.
C2_StopBeforeStart ==
    [][\A w \in Workers :
         (SpawnStep(w) /\ atCall[w] # NULL)
            => (term[atCall[w]] # "no" \/ proc[atCall[w]] = "exited")]_vars

\* C3: after play_announcement returns and its caller's next call, stop(),
\* completes before the intro has finished, the announcement never reaches
\* its speech step.
C3_AnnouncementAtomic == \A w \in cancelled : proc[w] # "speaking"

\* C4: the completion-waiter of a process clears the slot only if the slot
\* still refers to its process; when the slot holds another process, the
\* waiter leaves it there.
C4_StaleHandleGuard ==
    [][\A w \in Workers :
         (tpc[w] = "cleanup" /\ tpc'[w] = "done")
            => /\ current_process # w => current_process' = current_process
               /\ current_process = w => current_process' = NULL]_vars

\* C4 witness: a waiter is in its cleanup critical section while the slot
\* holds the running process of a later start.
C4_Witness ==
    \E a \in Workers, b \in Workers :
        /\ a # b
        /\ tpc[a] = "cleanup"
        /\ lock = TargetThread(a)
        /\ current_process = b
        /\ Running(b)

\* The lock is free or held by a thread inside one of the three critical
\* sections (none of which waits for a process).
LockInCriticalSection ==
    \/ lock = Free
    \/ \E c \in Callers : lock = CallerThread(c) /\ pc[c] = "stop_body"
    \/ \E w \in Workers : lock = TargetThread(w) /\ tpc[w] \in {"spawn", "cleanup"}

\* C5: while a tracked process runs and its waiter is blocked on it, the
\* waiter does not hold the lock: the lock is free or held by a short
\* critical section.
C5_LockFreeDuringWait ==
    \A w \in Workers :
        (tpc[w] = "communicate" /\ Running(w))
            => (lock # TargetThread(w) /\ LockInCriticalSection)

\* C5 witness: a stop() got the lock while the waiter was blocked and sent
\* the termination request before the process exited.
C5_Witness ==
    \E w \in Workers :
        /\ tpc[w] = "communicate"
        /\ Running(w)
        /\ term[w] = "sent"
        /\ current_process = NULL

\* C6: the body of stop() with a process in the slot calls terminate on it
\* and leaves the slot null and the lock free, whether or not terminate
\* raised; the caller goes on (stop() returns, a playback method continues).
C6_StopClearsSlot ==
    [][\A c \in Callers :
         (pc[c] = "stop_body" /\ pc'[c] # "stop_body")
            => /\ current_process' = NULL
               /\ lock' = Free
               /\ pc'[c] = (IF op[c] = "stop" THEN "idle" ELSE "dispatch")
               /\ (current_process # NULL /\ Running(current_process))
                     => term'[current_process] \in {"sent", "failed"}]_vars

\* C6 witness: a terminate() that raised on a running process, with the
\* slot cleared and the lock released by that stop().
C6_Witness ==
    \E w \in Workers :
        /\ Running(w)
        /\ term[w] = "failed"
        /\ current_process = NULL
        /\ lock = Free

\* C8: whenever the spawn step stores a new handle in the slot, the slot is
\* null at that moment.
C8_SlotNullAtSpawn ==
    [][\A w \in Workers : SpawnStep(w) => current_process = NULL]_vars

\* C9: by the time a fire-and-forget playback operation has returned to its
\* caller, its spawn attempt has been made (and, on success, the handle
\* stored): no returned operation has a worker thread still waiting for the
\* lock or about to call Popen.
C9_SpawnBeforeReturn ==
    \A w \in Workers : OpReturned(w) => tpc[w] \notin {"ready", "spawn"}

\* No call is in progress or to come, every thread started has made its spawn
\* attempt and every process spawned has exited.
Settled ==
    /\ calls = MaxCalls
    /\ \A c \in Callers : pc[c] = "idle"
    /\ \A w \in Workers : tpc[w] \notin {"ready", "spawn"} /\ ~Running(w)

\* C7: once a process stored in the slot has exited, the slot eventually no
\* longer refers to it; once no operation is left to run and every process
\* has exited, the slot eventually is null.
C7_EventualCleanup ==
    /\ \A w \in Workers :
           (current_process = w /\ proc[w] = "exited") ~> (current_process # w)
    /\ Settled ~> (current_process = NULL)

\* C7 witness: every call started a process, every process has exited, every
\* waiter has run its cleanup, and the controller is idle again.
C7_Witness ==
    /\ Settled
    /\ nthreads = MaxCalls
    /\ \A w \in Workers : proc[w] = "exited" /\ tpc[w] = "done"
    /\ current_process = NULL
    /\ lock = Free

\* The fire-and-forget playback methods.
FireAndForget == {"play_text", "play_file", "play_intro_async", "play_announcement"}

\* C10: a fire-and-forget playback method returns to its caller whether or
\* not any process ever exits.
C10_FireAndForget ==
    \A c \in Callers : (op[c] \in FireAndForget) ~> (pc[c] = "idle")

\* C10 witness: the operation has returned while its process is running.
C10_Witness ==
    \E w \in Workers :
        /\ OpReturned(w)
        /\ Running(w)
        /\ current_process = w

\* The step of target() that leaves its first critical section with no
\* process spawned: Popen raised.
SpawnFailureStep(w) ==
    tpc[w] = "spawn" /\ tpc'[w] # "spawn" /\ proc'[w] = "none"

\* C11: a failed spawn does not write the slot (a null slot stays null),
\* releases the lock, ends the worker thread without a wait or a cleanup
\* step, and changes nothing for any caller; a thread that ended this way
\* has no process and is never referred to by the slot.
C11_SpawnFailureIdle ==
    /\ [][\A w \in Workers :
            SpawnFailureStep(w)
               => /\ current_process' = current_process
                  /\ lock' = Free
                  /\ tpc'[w] = "done"
                  /\ pc' = pc /\ op' = op]_vars
    /\ [](\A w \in Workers :
            proc[w] = "none" => (tpc[w] # "communicate" /\ tpc[w] # "cleanup"
                                   /\ current_process # w))

\* C11 witness: every thread started has failed to spawn; the slot is null,
\* the lock is free and the callers are idle.
C11_Witness ==
    /\ nthreads >= 1
    /\ \A w \in 1..nthreads : tpc[w] = "done" /\ proc[w] = "none"
    /\ current_process = NULL
    /\ lock = Free
    /\ \A c \in Callers : pc[c] = "idle"

\* C12: the body of stop() with a null slot sends no termination request,
\* leaves the slot null and releases the lock, and stop() returns; so a
\* stop() that follows another stop() changes nothing.
C12_IdempotentStop ==
    [][\A c \in Callers :
         (pc[c] = "stop_body" /\ pc'[c] # "stop_body" /\ current_process = NULL)
            => /\ term' = term
               /\ current_process' = NULL
               /\ lock' = Free
               /\ proc' = proc
               /\ op[c] = "stop" => pc'[c] = "idle"]_vars

\* C12 witness: stop() is in its body with a null slot while a process
\* that no termination request has reached is still running.
C12_Witness ==
    \E c \in Callers, w \in Workers :
        /\ pc[c] = "stop_body"
        /\ op[c] = "stop"
        /\ current_process = NULL
        /\ Running(w)
        /\ term[w] = "no"

\* C13: play_intro returns to its caller only when the process it launched
\* has finished, on the media-file path (subprocess.run) and on the
\* fallback-tone path alike.
C13_PlayIntroSynchronous ==
    [][\A c \in Callers :
         (op[c] = "play_intro" /\ pc[c] # "idle" /\ pc'[c] = "idle")
            => /\ pc[c] = "run_wait" => runproc[c] = "exited"
               /\ nthreads' # nthreads => proc'[nthreads'] = "exited"]_vars

\* The threads that are inside a critical section.
InCriticalSection ==
    {CallerThread(c) : c \in {d \in Callers : pc[d] = "stop_body"}}
        \cup {TargetThread(w) : w \in {v \in Workers : tpc[v] \in {"spawn", "cleanup"}}}

\* The thread holding the lock can take the step that ends its critical
\* section.
HolderCanLeave ==
    /\ \A c \in Callers : lock = CallerThread(c) => ENABLED StopBody(c)
    /\ \A w \in Workers :
          lock = TargetThread(w) => ENABLED (TargetSpawn(w) \/ TargetCleanup(w))

\* C19: the slot is written only by the thread holding the lock; at most one
\* thread is inside a critical section and it is the holder of the lock;
\* every step that leaves a critical section frees the lock, and the holder
\* can always take that step.
C19_LockDiscipline ==
    /\ [](InCriticalSection = (IF lock = Free THEN {} ELSE {lock}))
    /\ [](Cardinality(InCriticalSection) <= 1)
    /\ []HolderCanLeave
    /\ [][current_process' # current_process => (lock # Free /\ lock' = Free)]_vars
    /\ [][lock # Free => lock' \in {lock, Free}]_vars
    /\ [][\A c \in Callers :
            (pc[c] = "stop_body" /\ pc'[c] # "stop_body") => lock' = Free]_vars
    /\ [][\A w \in Workers :
            (tpc[w] \in {"spawn", "cleanup"} /\ tpc'[w] # tpc[w]) => lock' = Free]_vars

\* C19 witness: a worker holds the lock in its spawn section while a
\* stop() and another worker wait for it.
C19_Witness ==
    \E c \in Callers, a \in Workers, b \in Workers :
        /\ lock = TargetThread(a)
        /\ tpc[a] = "spawn"
        /\ pc[c] = "stop_acquire"
        /\ tpc[b] = "ready"

\* C20: the process play_intro runs with subprocess.run is not stored in the
\* slot (its start leaves the slot as it is), the body of stop() leaves it
\* running, and it ends only by exiting on its own.
C20_RunProcUntracked ==
    [][\A c \in Callers :
         /\ (runproc[c] = "none" /\ runproc'[c] = "running")
               => current_process' = current_process
         /\ \A d \in Callers :
               (pc[d] = "stop_body" /\ pc'[d] # "stop_body")
                  => runproc'[c] = runproc[c]
         /\ (runproc[c] = "running" /\ runproc'[c] # "running")
               => (term' = term /\ current_process' = current_process
                     /\ pc' = pc)]_vars

\* C20 witness: the process of play_intro runs while a stop() made during
\* it has cleared the slot, and a process spawned by another operation runs
\* alongside it.
C20_Witness ==
    \E c \in Callers, w \in Workers :
        /\ pc[c] = "run_wait"
        /\ runproc[c] = "running"
        /\ Running(w)
        /\ term[w] = "sent"
        /\ current_process = NULL

----------------------------------------------------------------------------
\* Properties of one call.

\* The call has handed its invocation over.
Dispatched(m) == request.method = m /\ launched.by # "none"

\* What a script does, statement by statement.
OpsOf(script) == [i \in 1..Len(script) |-> script[i].op]

\* PowerShell reading a single-quoted string from position i on: a doubled
\* quote reads as one quote, a lone quote ends the string.  The result is the
\* text read and the position of the closing quote (0 if there is none).
RECURSIVE ReadFrom(_, _)
ReadFrom(lit, i) ==
    IF i > Len(lit) THEN [text |-> <<>>, end |-> 0]
    ELSE IF lit[i] = "'"
         THEN IF i < Len(lit) /\ lit[i + 1] = "'"
              THEN LET r == ReadFrom(lit, i + 2)
                   IN  [text |-> <<"'">> \o r.text, end |-> r.end]
              ELSE [text |-> <<>>, end |-> i]
         ELSE LET r == ReadFrom(lit, i + 1)
              IN  [text |-> <<lit[i]>> \o r.text, end |-> r.end]

\* The literal is one single-quoted string, closed by its last character,
\* that reads as str.
ReadsAs(lit, str) ==
    /\ Len(lit) >= 2
    /\ lit[1] = "'"
    /\ ReadFrom(lit, 2) = [text |-> str, end |-> Len(lit)]

\* C14: play_intro hands over exactly the two-tone script (800 Hz for
\* 400 ms, a pause of 100 ms, 600 Hz for 600 ms) when the path does not
\* exist, and then no statement opens a media file; when the path exists it
\* hands over the script that opens the file, and then no statement beeps.
C14_FallbackTone ==
    Dispatched("play_intro") =>
        IF ~request.exists
        THEN /\ launched.script = << [op |-> "beep", a |-> 800, b |-> 400, lit |-> <<>>],
                                     [op |-> "sleep_ms", a |-> 100, b |-> 0, lit |-> <<>>],
                                     [op |-> "beep", a |-> 600, b |-> 600, lit |-> <<>>] >>
             /\ \A i \in 1..Len(launched.script) : launched.script[i].op # "open"
        ELSE /\ \A i \in 1..Len(launched.script) : launched.script[i].op # "beep"
             /\ launched.script[1].op = "open"
             /\ ReadsAs(launched.script[1].lit, request.path)

\* C14 witness: play_intro has dispatched the tone for a path, not empty,
\* that does not exist.
C14_Witness ==
    /\ Dispatched("play_intro")
    /\ ~request.exists
    /\ Len(request.path) = MaxPathLen
    /\ launched.script[1].op = "beep"

\* C15: whatever the path and whether or not it exists, play_intro_async
\* hands over the script and the option that play_intro builds for the same
\* path and the same answer of the filesystem.
C15_SameInvocation ==
    Dispatched("play_intro_async") =>
        /\ launched.script = PlayIntroScript(request.path, request.exists)
        /\ launched.flag = FlagOf("play_intro")

\* C17: the text play_text (and play_announcement) embeds in its script is
\* one single-quoted string that PowerShell reads back as the text the
\* method was given, closed by its last quote and not before.
C17_EscapeRoundTrip ==
    (Dispatched("play_text") \/ Dispatched("play_announcement")) =>
        /\ \E i \in 1..Len(launched.script) : launched.script[i].op = "speak"
        /\ \A i \in 1..Len(launched.script) :
              launched.script[i].op = "speak"
                 => ReadsAs(launched.script[i].lit, request.text)

\* C17 witness: play_text has dispatched a text that begins and ends with
\* a quote.
C17_Witness ==
    /\ Dispatched("play_text")
    /\ Len(request.text) = MaxTextLen
    /\ request.text[1] = "'"
    /\ request.text[Len(request.text)] = "'"

\* The path ends with .wav, in whatever case.
HasWavExtension(path) ==
    LET n == Len(path) IN
        /\ n >= 4
        /\ path[n - 3] = "."
        /\ path[n - 2] \in {"w", "W"}
        /\ path[n - 1] \in {"a", "A"}
        /\ path[n] \in {"v", "V"}

\* C18: play_file hands over the SoundPlayer PlaySync script exactly when
\* the path ends with .wav in whatever case, and the MediaPlayer script
\* (open, play, loop on the position, close) for every other path; either
\* goes to _run_command, after the stop().
C18_PlayFileChoice ==
    Dispatched("play_file") =>
        /\ launched.stopped
        /\ launched.by = "_run_command"
        /\ ReadsAs(launched.script[1].lit, request.path)
        /\ OpsOf(launched.script) =
              (IF HasWavExtension(request.path)
               THEN <<"play_sync">>
               ELSE <<"open", "play", "wait_position", "close">>)

\* C18 witness: play_file has dispatched the SoundPlayer script for a path
\* whose extension is not in lower case.
C18_Witness ==
    /\ Dispatched("play_file")
    /\ request.path = <<".", "W", "a", "v">>
    /\ launched.script[1].op = "play_sync"

----------------------------------------------------------------------------
\* Properties of one run of a script.

\* The statements still to run and the polls still allowed: a number that
\* every step of a script without metadata makes smaller.
StepsLeft(state) == (Len(state.script) + 1 - state.idx) * 21 + state.attempts

\* The script has gone past its wait for the end of the media.
PastWait == \E i \in 1..Len(ps.script) : ps.script[i].op = "wait_end" /\ ps.idx > i

\* C16: the poll loop sleeps at most 20 times 100 ms; as long as the
\* duration has not become known, the script is not in the loop on the
\* position, has waited nothing before its fixed wait and exactly 4000 ms
\* after it, always has a next step until its last statement is done, and
\* comes closer to its end with every step.
C16_BoundedPoll ==
    /\ [](ps.attempts <= 20 /\ ps.polled <= 20 * 100)
    /\ [](ps.idx >= 3 => ps.polled + 100 * ps.attempts = 20 * 100)
    /\ [](~ps.hasTimeSpan =>
             /\ ~ps.inLoop
             /\ ps.position = 0
             /\ ps.waited = (IF PastWait THEN 4000 ELSE 0)
             /\ PastWait => ps.polled = 20 * 100)
    /\ [](ScriptRunning => ENABLED ScriptStep)
    /\ [][~ps'.hasTimeSpan => StepsLeft(ps') < StepsLeft(ps)]_vars

\* C16 witness: the announcement script has run to its end without the
\* duration ever becoming known: 20 polls, then the fixed wait.
C16_Witness ==
    /\ ps.idx = Len(ps.script) + 1
    /\ ps.script[Len(ps.script)].op = "speak"
    /\ ~ps.hasTimeSpan
    /\ ps.attempts = 0
    /\ ps.polled = 2000
    /\ ps.waited = 4000

====
